---- MODULE Spec2Model ----
(***************************************************************************)
(* TinyDuckieBot (tiny_duckie_bot.py) and its CommandSearcher              *)
(* (search_algorithm.py): the commands table, the index built from it and  *)
(* the ranked search.                                                      *)
(*                                                                         *)
(* Text is kept as strings and handled character by character.  Reals are  *)
(* fixed point: ratios and projection features in thousandths, fuzzy       *)
(* similarities in thousandths of a point, scores in ten-thousandths.      *)
(***************************************************************************)
EXTENDS Integers, Sequences, FiniteSets, TLC

VARIABLES db, seq, searcher, rng, builds, op, arg, ret, found, deleted

vars == <<db, seq, searcher, rng, builds, op, arg, ret, found, deleted>>

\* db        the rows of the commands table, in id order
\* seq       the largest id the table has handed out
\* searcher  the CommandSearcher: word_index, command_keywords, all_words,
\*           word_to_idx, lm and the spell checker's word_frequency
\* rng       the state of numpy's global random generator
\* builds    the number of build_index calls so far
\* op, arg   the last call made on the bot and its arguments
\* ret       what add_command or delete_command returned (for a search:
\*           that it returned at all)
\* found     what the last search computed and returned, or that it raised
\* deleted   the ids delete_command has returned true for

\* An operator's argument is evaluated once however often its body uses it;
\* the definitions named ...With or ...Of below take such values as arguments.

(***************************************************************************)
(* Strings                                                                 *)
(***************************************************************************)
Max(a, b) == IF a >= b THEN a ELSE b

Min(a, b) == IF a <= b THEN a ELSE b

Ch(s, i) == SubSeq(s, i, i)

Drop(s, n) == SubSeq(s, n + 1, Len(s))

CharsOf(s) == {Ch(s, i) : i \in 1..Len(s)}

RangeOf(s) == {s[i] : i \in 1..Len(s)}

UpperCase == "ABCDEFGHIJKLMNOPQRSTUVWXYZ"

LowerCase == "abcdefghijklmnopqrstuvwxyz"

\* str.lower() of one character
LowerChar(c) ==
    IF \E i \in 1..Len(UpperCase) : Ch(UpperCase, i) = c
    THEN Ch(LowerCase, CHOOSE i \in 1..Len(UpperCase) : Ch(UpperCase, i) = c)
    ELSE c

RECURSIVE Lower(_)
Lower(s) == IF s = "" THEN "" ELSE LowerChar(Ch(s, 1)) \o Lower(Drop(s, 1))

\* the argument of word.strip('.,!?()[]{}')
StripChars == {".", ",", "!", "?", "(", ")", "[", "]", "{", "}"}

RECURSIVE LStrip(_)
LStrip(s) ==
    IF s # "" /\ Ch(s, 1) \in StripChars THEN LStrip(Drop(s, 1)) ELSE s

RECURSIVE RStrip(_)
RStrip(s) ==
    IF s # "" /\ Ch(s, Len(s)) \in StripChars
    THEN RStrip(SubSeq(s, 1, Len(s) - 1))
    ELSE s

Strip(s) == RStrip(LStrip(s))

IsSpace(c) == c = " "

\* str.split(): the maximal runs of non-whitespace, in order
WordStarts(s) ==
    {i \in 1..Len(s) : ~IsSpace(Ch(s, i)) /\ (i = 1 \/ IsSpace(Ch(s, i - 1)))}

WordEnd(s, i) ==
    CHOOSE j \in i..Len(s) :
        /\ \A k \in i..j : ~IsSpace(Ch(s, k))
        /\ (j = Len(s) \/ IsSpace(Ch(s, j + 1)))

RECURSIVE WordsFrom(_, _)
WordsFrom(s, starts) ==
    IF starts = {} THEN <<>>
    ELSE LET i == CHOOSE x \in starts : \A y \in starts : x <= y
         IN  <<SubSeq(s, i, WordEnd(s, i))>> \o WordsFrom(s, starts \ {i})

Split(s) == WordsFrom(s, WordStarts(s))

\* str.strip() leaves nothing: the text is empty or all whitespace
IsBlank(s) == \A i \in 1..Len(s) : IsSpace(Ch(s, i))

\* list(set(xs)): the distinct elements, here in order of first occurrence
RECURSIVE Dedup(_, _)
Dedup(xs, acc) ==
    IF xs = <<>> THEN acc
    ELSE IF Head(xs) \in RangeOf(acc) THEN Dedup(Tail(xs), acc)
         ELSE Dedup(Tail(xs), Append(acc, Head(xs)))

RECURSIVE TokenWords(_)
TokenWords(ws) ==
    IF ws = <<>> THEN <<>>
    ELSE IF Len(Strip(Head(ws))) > 2
         THEN <<Lower(Strip(Head(ws)))>> \o TokenWords(Tail(ws))
         ELSE TokenWords(Tail(ws))

_tokenize(text) == IF text = "" THEN <<>> ELSE Dedup(TokenWords(Split(text)), <<>>)

(***************************************************************************)
(* rapidfuzz: process.extractOne(word, all_words, scorer=fuzz.WRatio),     *)
(* release 3 (no default preprocessing).  Similarities are in thousandths  *)
(* of a point: 80 points are 80000.                                        *)
(***************************************************************************)
\* one row of the longest-common-subsequence table: prev is the row above,
\* cur the cells of this row so far (both start with the column of the
\* empty prefix)
RECURSIVE LcsRow(_, _, _, _)
LcsRow(c, b, prev, cur) ==
    LET j == Len(cur)
    IN  IF j > Len(b) THEN cur
        ELSE LcsRow(c, b, prev,
                    Append(cur, IF c = Ch(b, j) THEN prev[j] + 1
                                ELSE Max(prev[j + 1], cur[j])))

RECURSIVE LcsRows(_, _, _, _)
LcsRows(a, b, i, prev) ==
    IF i > Len(a) THEN prev[Len(b) + 1]
    ELSE LcsRows(a, b, i + 1, LcsRow(Ch(a, i), b, prev, <<0>>))

LcsLen(a, b) == LcsRows(a, b, 1, [j \in 1..(Len(b) + 1) |-> 0])

\* fuzz.ratio: the normalized Indel similarity, 100 * 2*lcs / (len1 + len2)
Ratio(a, b) ==
    IF Len(a) + Len(b) = 0 THEN 100000
    ELSE (200000 * LcsLen(a, b)) \div (Len(a) + Len(b))

\* the windows fuzz.partial_ratio aligns the shorter string with: every
\* substring of the longer one of the shorter one's length, and the shorter
\* prefixes and suffixes the sliding window leaves at both ends
Windows(short, long) ==
    {SubSeq(long, i, i + Len(short) - 1) : i \in 1..(Len(long) - Len(short) + 1)}
    \cup {SubSeq(long, 1, k) : k \in 1..(Len(short) - 1)}
    \cup {SubSeq(long, Len(long) - k + 1, Len(long)) : k \in 1..(Len(short) - 1)}

SetMax(S) == CHOOSE x \in S : \A y \in S : y <= x

PartialRatio(a, b) ==
    LET short == IF Len(a) <= Len(b) THEN a ELSE b
        long  == IF Len(a) <= Len(b) THEN b ELSE a
    IN  IF short = "" THEN (IF long = "" THEN 100000 ELSE 0)
        ELSE SetMax({Ratio(short, w) : w \in Windows(short, long)})

\* fuzz.WRatio of two strings without whitespace (one token each, so the
\* token ratios equal the plain ones and their 0.95 scaling never wins):
\* the plain ratio when the lengths are within a factor 1.5, else the larger
\* of it and the partial ratio scaled by 0.9 (0.6 beyond a factor 8)
WRatio(a, b) ==
    LET l1 == Len(a)
        l2 == Len(b)
        lo == Min(l1, l2)
        hi == Max(l1, l2)
        base == Ratio(a, b)
    IN  IF lo = 0 THEN 0
        ELSE IF 2 * hi < 3 * lo THEN base
        ELSE IF hi <= 8 * lo THEN Max(base, (9 * PartialRatio(a, b)) \div 10)
        ELSE Max(base, (6 * PartialRatio(a, b)) \div 10)

NoMatch == [match |-> "", score |-> -1, found |-> FALSE]

\* process.extractOne: the first choice with the highest score, None when
\* there is no choice at all
RECURSIVE ExtractFrom(_, _, _, _)
ExtractWith(word, choices, i, best, sc) ==
    IF sc > best.score
    THEN IF sc = 100000
         THEN [match |-> choices[i], score |-> sc, found |-> TRUE]
         ELSE ExtractFrom(word, choices, i + 1,
                          [match |-> choices[i], score |-> sc, found |-> TRUE])
    ELSE ExtractFrom(word, choices, i + 1, best)

ExtractFrom(word, choices, i, best) ==
    IF i > Len(choices) THEN best
    ELSE ExtractWith(word, choices, i, best, WRatio(word, choices[i]))

extractOne(word, choices) == ExtractFrom(word, choices, 1, NoMatch)

(***************************************************************************)
(* pyspellchecker: SpellChecker().correction(word) over the word_frequency *)
(* counter (word -> count).                                                *)
(***************************************************************************)
Known(wf) == DOMAIN wf

\* b is a itself, or a with one character deleted, two neighbours
\* swapped, one character replaced or one inserted (edit_distance_1)
Edit1(a, b) ==
    LET la == Len(a)
        lb == Len(b)
    IN  \/ a = b
        \/ /\ la = lb + 1
           /\ \E i \in 1..la : SubSeq(a, 1, i - 1) \o Drop(a, i) = b
        \/ /\ lb = la + 1
           /\ \E i \in 1..lb : SubSeq(b, 1, i - 1) \o Drop(b, i) = a
        \/ /\ la = lb
           /\ \E i \in 1..la :
                 SubSeq(a, 1, i - 1) \o Drop(a, i) = SubSeq(b, 1, i - 1) \o Drop(b, i)
        \/ /\ la = lb
           /\ \E i \in 1..(la - 1) :
                 SubSeq(a, 1, i - 1) \o Ch(a, i + 1) \o Ch(a, i) \o Drop(a, i + 1) = b

\* the strings one edit away from a, with the characters of b as letters
\* (a character foreign to b never lies on a two-edit path from a to b that
\* is not matched by a path over b's characters)
Edits1(a, b) ==
    {SubSeq(a, 1, i - 1) \o Drop(a, i) : i \in 1..Len(a)}
    \cup {SubSeq(a, 1, i - 1) \o Ch(a, i + 1) \o Ch(a, i) \o Drop(a, i + 1) :
            i \in 1..(Len(a) - 1)}
    \cup {SubSeq(a, 1, p[1] - 1) \o p[2] \o Drop(a, p[1]) :
            p \in (1..Len(a)) \X CharsOf(b)}
    \cup {SubSeq(a, 1, p[1]) \o p[2] \o Drop(a, p[1]) :
            p \in (0..Len(a)) \X CharsOf(b)}

\* b is within two edits of a (edit_distance_2 = edit_distance_1 applied twice)
Edit2(a, b) ==
    /\ Len(a) - Len(b) \in -2..2
    /\ LcsLen(a, b) >= Max(Len(a), Len(b)) - 2
    /\ \E s \in Edits1(a, b) : Edit1(s, b)

\* max(sorted(candidates), key=frequency); a fixed choice among the most
\* frequent candidates
MostFrequent(wf, cands) ==
    CHOOSE w \in cands : \A v \in cands : wf[v] <= wf[w]

NoCorrection == ""

\* SpellChecker.correction: the word itself when known, else the most
\* frequent known word one edit away, else two edits away, else None (the
\* words the package does not check, numbers and overlong ones, come back
\* unchanged, which _correct_spelling treats like None)
BestOf(wf, cands, otherwise) ==
    IF cands # {} THEN MostFrequent(wf, cands) ELSE otherwise

correction(wf, word) ==
    IF word \in Known(wf) THEN word
    ELSE BestOf(wf, {w \in Known(wf) : Edit1(word, w)},
                BestOf(wf, {w \in Known(wf) : Edit2(word, w)}, NoCorrection))

(***************************************************************************)
(* MicroLanguageModel.  A parameter drawn as randn() * 0.01 is an integer  *)
(* number of hundredths; feature values are thousandths.                   *)
(***************************************************************************)
\* embed_size=16
EmbedSize == 16

\* the 3 features of the classifier
NumFeatures == 3

\* the states of numpy's global generator, which the program never seeds
RngStates == 0..1

\* the k-th draw of np.random.randn from generator state `seed`, in units of
\* one standard deviation
randn(seed, k) == ((seed * 7 + k * 3 + (k \div 5) + (k \div 11) * seed) % 5) - 2

\* the generator state after n draws
Advance(seed, n) == (seed + n) % Cardinality(RngStates)

\* the draws of one MicroLanguageModel(vocab_size): embeddings, attention
\* weights and classifier
DrawsOf(vocab_size) == vocab_size * EmbedSize + EmbedSize + EmbedSize * NumFeatures

\* self.embeddings[row][col], self.attention_weights[col] and
\* self.classifier[row][col], in hundredths, in the order __init__ draws them
Embedding(m, row, col) == randn(m.seed, row * EmbedSize + col)

Attention(m, col) == randn(m.seed, m.vocab_size * EmbedSize + col)

Classifier(m, row, col) ==
    randn(m.seed, (m.vocab_size + 1) * EmbedSize + row * NumFeatures + col)

MicroLanguageModel(vocab_size, seed) == [vocab_size |-> vocab_size, seed |-> seed]

\* 1000 / (1 + exp(-x)) for x in ten-thousandths; the products of two
\* parameters summed over EmbedSize columns stay below 0.01, where the
\* sigmoid is 1/2 + x/4 to within 1e-7
Sigmoid(x) == 500 + (x \div 40)

\* the smallest r with r * r >= n
RECURSIVE CeilSqrtFrom(_, _, _)
CeilSqrtFrom(n, lo, hi) ==
    IF lo >= hi THEN lo
    ELSE LET mid == (lo + hi) \div 2
         IN  IF mid * mid >= n THEN CeilSqrtFrom(n, lo, mid)
             ELSE CeilSqrtFrom(n, mid + 1, hi)

CeilSqrt(n) == CeilSqrtFrom(n, 0, 46340)

\* the sum over the indices of column col of their embedding rows
RECURSIVE EmbeddingSum(_, _, _)
EmbeddingSum(m, word_indices, col) ==
    IF word_indices = <<>> THEN 0
    ELSE Embedding(m, Head(word_indices) % m.vocab_size, col)
         + EmbeddingSum(m, Tail(word_indices), col)

\* n times np.mean(rows, axis=0): one sum per column
RECURSIVE EmbeddedFrom(_, _, _)
EmbeddedFrom(m, word_indices, acc) ==
    IF Len(acc) = EmbedSize THEN acc
    ELSE EmbeddedFrom(m, word_indices,
                      Append(acc, EmbeddingSum(m, word_indices, Len(acc))))

\* np.exp(attention_scores) / np.sum(np.exp(attention_scores)): the softmax
\* of one number
AttentionWeight == 1

\* np.dot(embedded * attention_weights, self.classifier)[c], in
\* ten-thousandths; embsum is n times the mean embedding
RECURSIVE ClassifierDot(_, _, _, _)
ClassifierDot(m, embsum, c, col) ==
    IF col = EmbedSize THEN 0
    ELSE embsum[col + 1] * AttentionWeight * Classifier(m, col, c)
         + ClassifierDot(m, embsum, c, col + 1)

FeatureOf(m, embsum, n, c) == ClassifierDot(m, embsum, c, 0) \div n

FeaturesOf(m, embsum, n) ==
    <<Sigmoid(FeatureOf(m, embsum, n, 0)), Sigmoid(FeatureOf(m, embsum, n, 1)),
      Sigmoid(FeatureOf(m, embsum, n, 2))>>

\* forward(word_indices): the neutral answer for no indices, else the mean
\* embedding through attention, classifier and sigmoid
forward(m, word_indices) ==
    IF word_indices = <<>> THEN <<330, 330, 330>>
    ELSE FeaturesOf(m, EmbeddedFrom(m, word_indices, <<>>), Len(word_indices))

RECURSIVE DotFrom(_, _, _)
DotFrom(u, v, i) == IF i > Len(u) THEN 0 ELSE u[i] * v[i] + DotFrom(u, v, i + 1)

\* np.dot of two vectors
Dot(u, v) == DotFrom(u, v, 1)

\* np.linalg.norm, rounded up
Norm(u) == CeilSqrt(Dot(u, u))

(***************************************************************************)
(* CommandSearcher.  Positions are Python's: the first record is 0.        *)
(***************************************************************************)
SearchText(cmd) == cmd.intent \o " " \o cmd.command \o " " \o cmd.description

RECURSIVE Vocab(_, _)
Vocab(commands, acc) ==
    IF commands = <<>> THEN acc
    ELSE Vocab(Tail(commands), Dedup(_tokenize(SearchText(Head(commands))), acc))

\* word_frequency.load_words(words): every word's count goes up by one
load_words(wf, words) ==
    [w \in DOMAIN wf \cup RangeOf(words) |->
        (IF w \in DOMAIN wf THEN wf[w] ELSE 0) + (IF w \in RangeOf(words) THEN 1 ELSE 0)]

KeywordSet(cmd) == RangeOf(_tokenize(SearchText(cmd)))

\* self.command_keywords after the loop over the commands
RECURSIVE KeywordSets(_)
KeywordSets(commands) ==
    IF commands = <<>> THEN <<>>
    ELSE <<KeywordSet(Head(commands))>> \o KeywordSets(Tail(commands))

\* the index with positions counted from 1 (enumerate(commands, 1))
IndexFromOne(words, keywords, wf, seed) ==
    [all_words |-> words,
     word_to_idx |-> [w \in RangeOf(words) |->
                         (CHOOSE i \in 1..Len(words) : words[i] = w) - 1],
     word_frequency |-> load_words(wf, words),
     lm |-> MicroLanguageModel(Len(words), seed),
     word_index |-> [w \in UNION RangeOf(keywords) |->
                        {j \in 1..Len(keywords) : w \in keywords[j]}],
     command_keywords |-> keywords]

\* the index over the vocabulary `words` and the keyword sets `keywords`
IndexOf(words, keywords, wf, seed) ==
    [all_words |-> words,
     word_to_idx |-> [w \in RangeOf(words) |->
                         (CHOOSE i \in 1..Len(words) : words[i] = w) - 1],
     word_frequency |-> load_words(wf, words),
     lm |-> MicroLanguageModel(Len(words), seed),
     word_index |-> [w \in UNION RangeOf(keywords) |->
                        {i - 1 : i \in {j \in 1..Len(keywords) : w \in keywords[j]}}],
     command_keywords |-> keywords]

\* build_index(commands), with the spell checker's counter wf and the
\* generator state seed the model's parameters are drawn from
build_index(commands, wf, seed) ==
    IndexOf(Vocab(commands, <<>>), KeywordSets(commands), wf, seed)

\* CommandSearcher(): nothing indexed, the spell checker with its dictionary
NewSearcher(wf) ==
    [all_words |-> <<>>, word_to_idx |-> <<>>, word_frequency |-> wf,
     lm |-> MicroLanguageModel(0, 0), word_index |-> <<>>, command_keywords |-> <<>>]

Corrected(w) == [word |-> w, raised |-> FALSE]

Raises == [word |-> "", raised |-> TRUE]

\* _correct_spelling(word); unpacking the None extractOne gives for an empty
\* all_words raises TypeError
BestMatchOf(word, m) ==
    IF ~m.found THEN Raises
    ELSE Corrected(IF m.score > 80000 THEN m.match ELSE word)

CorrectionOf(self, word, c) ==
    IF c # NoCorrection /\ c \in DOMAIN self.word_to_idx THEN Corrected(c)
    ELSE BestMatchOf(word, extractOne(word, self.all_words))

_correct_spelling(self, word) ==
    IF word \in DOMAIN self.word_to_idx THEN Corrected(word)
    ELSE CorrectionOf(self, word, correction(self.word_frequency, word))

RECURSIVE _get_word_indices(_, _)
_get_word_indices(self, words) ==
    IF words = <<>> THEN <<>>
    ELSE IF Head(words) \in DOMAIN self.word_to_idx
         THEN <<self.word_to_idx[Head(words)]>> \o _get_word_indices(self, Tail(words))
         ELSE _get_word_indices(self, Tail(words))

\* list(cmd_words), in all_words order
RECURSIVE ListOf(_, _)
ListOf(words, S) ==
    IF words = <<>> THEN <<>>
    ELSE IF Head(words) \in S THEN <<Head(words)>> \o ListOf(Tail(words), S)
         ELSE ListOf(Tail(words), S)

\* the cosine of the two feature vectors, in thousandths:
\* dot / (norm * norm + 1e-6)
Cosine(u, v) == (1000 * Dot(u, v)) \div (Norm(u) * Norm(v) + 1)

\* the similarity returned as similarity + 1, not halved
_analyze_unnormalized(self, qwords, cmd_words) ==
    LET query_features == forward(self.lm, _get_word_indices(self, qwords))
        cmd_features == forward(self.lm,
                           _get_word_indices(self, ListOf(self.all_words, cmd_words)))
    IN  Cosine(query_features, cmd_features) + 1000

\* _analyze_with_lm(query_words, cmd_words): (similarity + 1) / 2
_analyze_with_lm(self, qwords, cmd_words) ==
    LET query_features == forward(self.lm, _get_word_indices(self, qwords))
        cmd_features == forward(self.lm,
                           _get_word_indices(self, ListOf(self.all_words, cmd_words)))
    IN  (Cosine(query_features, cmd_features) + 1000) \div 2

\* tuple comparison of two (-score, idx) heap entries
TupleLess(x, y) == x[1] < y[1] \/ (x[1] = y[1] /\ x[2] < y[2])

\* heapq._siftdown(heap, 0, pos) with the new item still to be placed
RECURSIVE SiftDown(_, _, _)
SiftDown(heap, pos, newitem) ==
    IF pos > 0
    THEN LET parentpos == (pos - 1) \div 2
             parent == heap[parentpos + 1]
         IN  IF TupleLess(newitem, parent)
             THEN SiftDown([heap EXCEPT ![pos + 1] = parent], parentpos, newitem)
             ELSE [heap EXCEPT ![pos + 1] = newitem]
    ELSE [heap EXCEPT ![pos + 1] = newitem]

heappush(heap, item) == SiftDown(Append(heap, item), Len(heap), item)

\* sorted(..., reverse=True) on the negated scores
RECURSIVE InsertReversed(_, _)
InsertReversed(sorted, x) ==
    IF sorted = <<>> THEN <<x>>
    ELSE IF x[1] > Head(sorted)[1] THEN <<x>> \o sorted
         ELSE <<Head(sorted)>> \o InsertReversed(Tail(sorted), x)

RECURSIVE SortedReversed(_)
SortedReversed(xs) ==
    IF xs = <<>> THEN <<>>
    ELSE InsertReversed(SortedReversed(SubSeq(xs, 1, Len(xs) - 1)), xs[Len(xs)])

\* sorted(xs, key=lambda x: x[0]): stable, ascending in the first component
RECURSIVE InsertSorted(_, _)
InsertSorted(sorted, x) ==
    IF sorted = <<>> THEN <<x>>
    ELSE IF x[1] < Head(sorted)[1] THEN <<x>> \o sorted
         ELSE <<Head(sorted)>> \o InsertSorted(Tail(sorted), x)

RECURSIVE SortedByKey(_)
SortedByKey(xs) ==
    IF xs = <<>> THEN <<>>
    ELSE InsertSorted(SortedByKey(SubSeq(xs, 1, Len(xs) - 1)), xs[Len(xs)])

\* the [:3] of the result
TopK == 3

TopResults(heap) == SubSeq(SortedByKey(heap), 1, Min(TopK, Len(heap)))

\* self.word_index[word] on the defaultdict: a missing key is added
IndexSubscript(index, word) ==
    [value |-> IF word \in DOMAIN index THEN index[word] ELSE {},
     index |-> IF word \in DOMAIN index THEN index
               ELSE [w \in DOMAIN index \cup {word} |->
                        IF w \in DOMAIN index THEN index[w] ELSE {}]]

\* self.word_index.get(word, set()): the entry or the empty set, and the
\* dictionary after the call (get never adds a key)
IndexGet(index, word) ==
    [value |-> IF word \in DOMAIN index THEN index[word] ELSE {}, index |-> index]

\* the loop over query_words that unions the index entries
RECURSIVE Candidates(_, _, _)
Candidates(index, qwords, acc) ==
    IF qwords = <<>> THEN [indices |-> acc, index |-> index]
    ELSE LET g == IndexGet(index, Head(qwords))
         IN  Candidates(g.index, Tail(qwords), acc \cup g.value)

\* len(matched_words) / len(query_words), in thousandths
Coverage(matched_words, qwords) == (1000 * Cardinality(matched_words)) \div Len(qwords)

\* len(matched_words) / len(cmd_words) if cmd_words else 0, in thousandths
Density(matched_words, cmd_words) ==
    IF cmd_words # {} THEN (1000 * Cardinality(matched_words)) \div Cardinality(cmd_words)
    ELSE 0

\* (lm_score * 0.6) + (coverage * 0.3) + (density * 0.1), in ten-thousandths
CombinedScore(lm_score, coverage, density) == (lm_score * 6) + (coverage * 3) + (density * 1)

\* score > 0.3
Threshold == 3000

FeaturesWith(idx, matched_words, lm_score, coverage, density) ==
    [idx |-> idx, matched_words |-> matched_words, lm_score |-> lm_score,
     coverage |-> coverage, density |-> density,
     score |-> CombinedScore(lm_score, coverage, density)]

ScoreWith(self, qwords, idx, cmd_words, matched_words) ==
    FeaturesWith(idx, matched_words, _analyze_with_lm(self, qwords, cmd_words),
                 Coverage(matched_words, qwords), Density(matched_words, cmd_words))

\* the body of the scoring loop for the candidate at position idx
ScoreCandidate(self, qwords, idx) ==
    ScoreWith(self, qwords, idx, self.command_keywords[idx + 1],
              RangeOf(qwords) \cap self.command_keywords[idx + 1])

\* the candidate positions in the order the loop visits a set of small ints
RECURSIVE Ascending(_)
Ascending(S) ==
    IF S = {} THEN <<>>
    ELSE LET m == CHOOSE x \in S : \A y \in S : x <= y
         IN  <<m>> \o Ascending(S \ {m})

RECURSIVE PushAll(_, _)
PushAll(cands, heap) ==
    IF cands = <<>> THEN heap
    ELSE PushAll(Tail(cands),
                 IF Head(cands).score > Threshold
                 THEN heappush(heap, <<-Head(cands).score, Head(cands).idx>>)
                 ELSE heap)

RECURSIVE ScoreAll(_, _, _)
ScoreAll(self, qwords, order) ==
    IF order = <<>> THEN <<>>
    ELSE <<ScoreCandidate(self, qwords, Head(order))>>
         \o ScoreAll(self, qwords, Tail(order))

\* the corrected query words; raised as soon as one correction raises
RECURSIVE CorrectAll(_, _, _)
CorrectedWith(self, words, acc, c) ==
    IF c.raised THEN [words |-> acc, raised |-> TRUE]
    ELSE CorrectAll(self, Tail(words), IF c.word # "" THEN Append(acc, c.word) ELSE acc)

CorrectAll(self, words, acc) ==
    IF words = <<>> THEN [words |-> acc, raised |-> FALSE]
    ELSE CorrectedWith(self, words, acc, _correct_spelling(self, Head(words)))

\* what one search call gives: the (record, score) pairs or the exception,
\* with the query words and candidate features computed on the way and the
\* word_index the call leaves
Outcome(pairs, exc, qwords, cands, index) ==
    [results |-> pairs, raised |-> exc, query_words |-> qwords, scored |-> cands,
     word_index |-> index]

NoOutcome(index) == Outcome(<<>>, FALSE, <<>>, <<>>, index)

\* the return statement; commands[idx] raises IndexError past the end
ReturnWith(commands, qwords, cands, index, top) ==
    IF \E i \in 1..Len(top) : top[i][2] + 1 > Len(commands)
    THEN Outcome(<<>>, TRUE, qwords, cands, index)
    ELSE Outcome([i \in 1..Len(top) |-> <<commands[top[i][2] + 1], -top[i][1]>>],
                 FALSE, qwords, cands, index)

RankWith(commands, qwords, cands, index) ==
    ReturnWith(commands, qwords, cands, index, TopResults(PushAll(cands, <<>>)))

\* the scoring loop; self.command_keywords[idx] raises IndexError past the end
SearchWith(self, commands, qwords, cand) ==
    IF \E i \in cand.indices : i + 1 > Len(self.command_keywords)
    THEN Outcome(<<>>, TRUE, qwords, <<>>, cand.index)
    ELSE RankWith(commands, qwords,
                  ScoreAll(self, qwords, Ascending(cand.indices)), cand.index)

QueryWith(self, commands, q) ==
    IF q.raised THEN Outcome(<<>>, TRUE, q.words, <<>>, self.word_index)
    ELSE IF q.words = <<>> THEN NoOutcome(self.word_index)
    ELSE SearchWith(self, commands, q.words, Candidates(self.word_index, q.words, {}))

\* CommandSearcher.search(query, commands)
searcher_search(self, query, commands) ==
    IF IsBlank(query) THEN NoOutcome(self.word_index)
    ELSE QueryWith(self, commands, CorrectAll(self, _tokenize(query), <<>>))

(***************************************************************************)
(* TinyDuckieBot over the commands table.  db is what SELECT * FROM        *)
(* commands returns (the rows in id order), seq the largest id the         *)
(* AUTOINCREMENT column has handed out.                                    *)
(***************************************************************************)
\* the most build_index calls of one run (every call raises word counts)
MaxBuilds == 3

Row(id, intent, command, description) ==
    [id |-> id, intent |-> intent, command |-> command, description |-> description]

default_commands ==
    << <<"ssh connect with private key", "ssh username@host -i id_rsa",
         "Connect SSH using private key authentication">>,
       <<"simple ssh command", "ssh username@host", "Basic SSH connection command">>,
       <<"scan network ports", "nmap -sV -T4 192.168.1.0/24",
         "Scan network for open ports and services">> >>

\* what the database file holds when the program starts: nothing, or the
\* table an earlier run left
StoredTables ==
    { [rows |-> <<>>, seq |-> 0],
      [rows |-> <<Row(2, "List files.", "ls -l", "")>>, seq |-> 2] }

\* the words SpellChecker() starts with and their counts (an excerpt of the
\* English dictionary the package ships)
EnglishDictionary ==
    [w \in {"file", "flies", "scan", "network", "key"} |->
        CASE w = "file" -> 5000
          [] w = "flies" -> 200
          [] w = "scan" -> 800
          [] w = "network" -> 3000
          [] w = "key" -> 4000]

\* the arguments of /add
AddPool ==
    { <<"plain ssh", "ssh -p 22 username@host", "">>,
      <<"Plain SSH!", "ssh -p 23 username@host", "">> }

\* the text typed at the prompt
Queries == {"ssh key", "   ", "list files", "file fies", "Scan netowrk!"}

\* the UNIQUE constraint put on the intent column
ViolatesUniqueIntent(rows, command) == \E i \in 1..Len(rows) : rows[i].intent = command

\* command TEXT NOT NULL UNIQUE
ViolatesUnique(rows, command) == \E i \in 1..Len(rows) : rows[i].command = command

\* a plain INTEGER PRIMARY KEY: one more than the largest id in the table
NextIdReused(rows, last) == SetMax({0} \cup {rows[i].id : i \in 1..Len(rows)}) + 1

\* id INTEGER PRIMARY KEY AUTOINCREMENT: one more than the largest id ever used
NextId(rows, last) == last + 1

\* INSERT INTO commands (intent, command, description) VALUES (?, ?, ?)
Insert(table, c) ==
    LET id == NextId(table.rows, table.seq)
    IN  [rows |-> Append(table.rows, Row(id, c[1], c[2], c[3])), seq |-> id]

RECURSIVE InsertMany(_, _)
InsertMany(table, cs) ==
    IF cs = <<>> THEN table ELSE InsertMany(Insert(table, Head(cs)), Tail(cs))

\* _initialize_db: the default commands go into an empty table
_initialize_db(table) ==
    IF Len(table.rows) = 0 THEN InsertMany(table, default_commands) ELSE table

\* DELETE FROM commands WHERE id = ?
RECURSIVE DeleteRow(_, _)
DeleteRow(rows, id) ==
    IF rows = <<>> THEN <<>>
    ELSE IF Head(rows).id = id THEN DeleteRow(Tail(rows), id)
         ELSE <<Head(rows)>> \o DeleteRow(Tail(rows), id)

NoArg == [query |-> "", intent |-> "", command |-> "", description |-> "", id |-> 0]

\* a mutation that returns without rebuilding the index
_load_nothing(rows) ==
    /\ UNCHANGED <<searcher, rng>>
    /\ builds' = builds + 1

\* _load_commands: build_index over the rows of the table
_load_commands(rows) ==
    /\ searcher' = build_index(rows, searcher.word_frequency, rng)
    /\ rng' = Advance(rng, DrawsOf(Len(searcher'.all_words)))
    /\ builds' = builds + 1

\* TinyDuckieBot(): CommandSearcher(), _initialize_db(), _load_commands()
Init ==
    \E table \in StoredTables, seed \in RngStates :
        /\ db = _initialize_db(table).rows
        /\ seq = _initialize_db(table).seq
        /\ searcher = build_index(db, NewSearcher(EnglishDictionary).word_frequency, seed)
        /\ rng = Advance(seed, DrawsOf(Len(searcher.all_words)))
        /\ builds = 1
        /\ op = "init"
        /\ arg = NoArg
        /\ ret = TRUE
        /\ found = NoOutcome(searcher.word_index)
        /\ deleted = {}

\* TinyDuckieBot.search(query)
search(query) ==
    /\ op' = "search"
    /\ arg' = [NoArg EXCEPT !.query = query]
    /\ found' = searcher_search(searcher, query, db)
    /\ ret' = ~found'.raised
    /\ searcher' = [searcher EXCEPT !.word_index = found'.word_index]
    /\ UNCHANGED <<db, seq, rng, builds, deleted>>

\* TinyDuckieBot.add_command(intent, command, description)
add_command(intent, command, description) ==
    /\ op' = "add"
    /\ arg' = [NoArg EXCEPT !.intent = intent, !.command = command,
                            !.description = description]
    /\ \/ /\ ViolatesUnique(db, command)
          /\ ret' = FALSE
          /\ found' = NoOutcome(searcher.word_index)
          /\ UNCHANGED <<db, seq, searcher, rng, builds, deleted>>
       \/ /\ ~ViolatesUnique(db, command)
          /\ builds < MaxBuilds
          /\ db' = Insert([rows |-> db, seq |-> seq], <<intent, command, description>>).rows
          /\ seq' = db'[Len(db')].id
          /\ _load_commands(db')
          /\ found' = NoOutcome(searcher'.word_index)
          /\ ret' = TRUE
          /\ UNCHANGED deleted

\* TinyDuckieBot.delete_command(command_id)
delete_command(command_id) ==
    /\ op' = "delete"
    /\ arg' = [NoArg EXCEPT !.id = command_id]
    /\ \/ /\ \E i \in 1..Len(db) : db[i].id = command_id
          /\ builds < MaxBuilds
          /\ db' = DeleteRow(db, command_id)
          /\ _load_commands(db')
          /\ found' = NoOutcome(searcher'.word_index)
          /\ ret' = TRUE
          /\ deleted' = deleted \cup {command_id}
          /\ UNCHANGED seq
       \/ /\ ~\E i \in 1..Len(db) : db[i].id = command_id
          /\ ret' = FALSE
          /\ found' = NoOutcome(searcher.word_index)
          /\ UNCHANGED <<db, seq, searcher, rng, builds, deleted>>

Next ==
    \/ \E query \in Queries : search(query)
    \/ \E c \in AddPool : add_command(c[1], c[2], c[3])
    \/ \E command_id \in 1..(seq + 1) : delete_command(command_id)

Spec == Init /\ [][Next]_vars

(***************************************************************************)
(* Properties                                                              *)
(***************************************************************************)
Results == found.results

RecordOf(i) == Results[i][1]

ScoreOf(i) == Results[i][2]

QueryTokens == RangeOf(found.query_words)

\* C1: once delete_command(id) has returned true, no search returns a
\* (record, score) pair whose record has that id.
DeletedNeverReturned ==
    \A i \in 1..Len(Results) : RecordOf(i).id \notin deleted

\* a search that returns records after a record matching the query was deleted
SearchAfterDelete ==
    /\ op = "search"
    /\ Results # <<>>
    /\ deleted # {}
    /\ Len(db) >= 1
    /\ builds >= 2

\* C2: on an empty catalog every search returns the empty list and raises
\* nothing.
EmptyCatalogSearchReturnsNothing ==
    (op = "search" /\ Len(db) = 0) => (~found.raised /\ Results = <<>>)

\* C3 as stated: at most 3 results, each score strictly greater than the next.
StrictlyDescendingTop3 ==
    /\ Len(Results) <= 3
    /\ \A i \in 1..(Len(Results) - 1) : ScoreOf(i) > ScoreOf(i + 1)

\* C3 amended: at most 3 results, no score smaller than the next; records
\* with the same keyword set get the same score.
DescendingTop3 ==
    /\ Len(Results) <= 3
    /\ \A i \in 1..(Len(Results) - 1) : ScoreOf(i) >= ScoreOf(i + 1)

\* more than 3 candidates passed the threshold and two of the 3 returned tie
CutToThreeWithTie ==
    /\ op = "search"
    /\ Len(found.scored) > 3
    /\ Len(Results) = 3
    /\ \E i \in 1..2 : ScoreOf(i) = ScoreOf(i + 1)
    /\ \E i \in 1..2 : ScoreOf(i) > ScoreOf(i + 1)

\* C4: every candidate and every returned record has a keyword in common
\* with the corrected query tokens.
ReturnedShareAToken ==
    /\ \A i \in 1..Len(Results) : KeywordSet(RecordOf(i)) \cap QueryTokens # {}
    /\ \A i \in 1..Len(found.scored) :
          /\ found.scored[i].idx + 1 \in 1..Len(db)
          /\ KeywordSet(db[found.scored[i].idx + 1]) \cap QueryTokens # {}

\* a search returned a record while another record of the catalog, sharing
\* no token with the query, was left out
DisjointRecordLeftOut ==
    /\ op = "search"
    /\ Results # <<>>
    /\ \E j \in 1..Len(db) :
          /\ KeywordSet(db[j]) \cap QueryTokens = {}
          /\ \A i \in 1..Len(Results) : RecordOf(i) # db[j]

\* C5: when control is back with the caller, command_keywords holds one
\* keyword set per catalog record, in catalog order, and every position in
\* word_index is a position of the catalog.
IndexMatchesCatalog ==
    /\ Len(searcher.command_keywords) = Len(db)
    /\ \A i \in 1..Len(db) : searcher.command_keywords[i] = KeywordSet(db[i])
    /\ \A w \in DOMAIN searcher.word_index :
          searcher.word_index[w] \subseteq 0..(Len(db) - 1)

\* an add_command succeeded after a delete_command had succeeded
AddedAfterDelete ==
    /\ op = "add"
    /\ ret
    /\ deleted # {}
    /\ Len(db) >= 1

\* C6: after every build_index the spell checker knows exactly the words of
\* the vocabulary.
KnownWordsAreVocabulary ==
    Known(searcher.word_frequency) = RangeOf(searcher.all_words)

\* C7: a search changes nothing of the searcher, and a search repeated with
\* the same query returns what the one before it returned.
SearchChangesNothing ==
    [][op' = "search" =>
          /\ searcher' = searcher
          /\ (op = "search" /\ arg' = arg) => found' = found]_vars

\* a search was served that looked up a token no index entry exists for
SearchedUnknownToken ==
    /\ op = "search"
    /\ Results # <<>>
    /\ \E w \in QueryTokens : w \notin DOMAIN searcher.word_index

\* C8: every returned score is above 0.3 and at most 1.0, and is the blend
\* 0.6 * similarity + 0.3 * coverage + 0.1 * density of its candidate.
ScoreInRange ==
    /\ \A i \in 1..Len(Results) : ScoreOf(i) > 3000 /\ ScoreOf(i) <= 10000
    /\ \A i \in 1..Len(Results) :
          \E j \in 1..Len(found.scored) :
             /\ db[found.scored[j].idx + 1] = RecordOf(i)
             /\ ScoreOf(i) = 6 * found.scored[j].lm_score
                             + 3 * found.scored[j].coverage + found.scored[j].density

\* a record was returned for a query two of whose tokens were corrected to
\* the same word
ReturnedForRepeatedToken ==
    /\ op = "search"
    /\ Results # <<>>
    /\ Len(found.query_words) > Cardinality(QueryTokens)

\* C9: add_command with the command of an existing record returns false and
\* leaves the catalog and the index as they were.
DuplicateAddRefused ==
    [][(op' = "add" /\ \E i \in 1..Len(db) : db[i].command = arg'.command) =>
          /\ ret' = FALSE
          /\ db' = db
          /\ searcher' = searcher]_vars

\* an add_command was refused as a duplicate
DuplicateRefused ==
    /\ op = "add"
    /\ ~ret
    /\ \E i \in 1..Len(db) : db[i].command = arg.command

\* C10: the coverage of every candidate is the number of distinct query
\* tokens in its keyword set over the number of distinct query tokens.
CoverageOverDistinctTokens ==
    \A i \in 1..Len(found.scored) :
       found.scored[i].coverage =
          (1000 * Cardinality(QueryTokens \cap searcher.command_keywords[found.scored[i].idx + 1]))
             \div Cardinality(QueryTokens)

====
